---------------------------- MODULE Spec2Model ----------------------------
(***************************************************************************)
(* Model of the MCP client facade (src/client.py, class MCPClient) and of  *)
(* the resource-stack demonstration (src/practice.py, main).               *)
(*                                                                         *)
(* The facade composes a transport and a protocol session on one           *)
(* contextlib.AsyncExitStack.  The stack is modelled by what the calls     *)
(* made in the source do (enter_async_context, push_async_callback,        *)
(* aclose, __aexit__).  The protocol session (mcp.ClientSession) has no    *)
(* code in the repository: its state machine and its pending-request table *)
(* follow sections 4.2 and 5 of the specification.                         *)
(***************************************************************************)
EXTENDS Integers, Sequences, FiniteSets, TLC

\* ------------------------------------------------------------- bounds
MaxEnters == 2        \* invocations of MCPClient.__aenter__ on the instance
MaxExtraExits == 1    \* direct __aexit__ calls outside an "async with" scope
NumCallers == 2       \* tasks that each start one facade operation
MaxTools == 2         \* tool descriptors in one list_tools response

Callers == 1..NumCallers
Resources == 1..MaxEnters
ToolNames == {"get_greeting", "missing_tool"}
\* What a caller may pass to call_tool: a tool name or the empty string, and a
\* dict or something that is not one (a str).
CallNames == ToolNames \cup {""}
CallInputs == {"mapping", "text"}
ServerTools == {"get_greeting"}
Descriptors == [name : {"get_greeting", "add"}, inputSchema : {"object"}]
HandshakeOutcomes == {"ack", "timeout", "malformed", "transport_closed"}

VARIABLES
  program,    \* which script runs: "client" (client.py) or "practice" (practice.py)
  \* ---- MCPClient (client.py)
  pc,         \* position of the task that drives the facade's lifecycle
  depth,      \* "async with" scopes on the facade entered and not yet left
  enters,     \* __aenter__ invocations so far (names the resources they open)
  extraExits, \* direct __aexit__ calls made so far
  stack,      \* self.stack: the exit callbacks AsyncExitStack has recorded
  sess,       \* self._sess: 0 is None, n is the session opened by enter n
  tState,     \* transport n: "unopened", "open", "lost" (disconnected), "closed"
  tCloses,    \* how often transport n's __aexit__ was invoked
  sCloses,    \* how often session n's __aexit__ was invoked
  inflight,   \* the failure with which the scope is exiting, or "none"
  pending_raise, \* aclose: the failure of a release step waiting to be raised
  propagated, \* what the last facade operation propagated to its caller
  snapshot,   \* the stack as it was when the close under way began
  closeLog,   \* the entries the close under way has released, in order
  reports,    \* failures the last close raised to its caller
  firstFailed, \* position in closeLog of the first release that failed, or 0
  \* ---- protocol session (section 4.2)
  sState,     \* session n: Unopened, Uninitialized, Initializing, Ready, Closed
  nextId,     \* session n: the next request identifier
  pending,    \* session n: pending-request table, a set of <<id, caller>>
  sent,       \* written to the wire: [sess, id, kind], a handshake or a request
  unanswered, \* requests on the wire the server has not answered yet
  \* ---- callers
  cPc,        \* caller c: "idle", "waiting", "done"
  cReq,       \* caller c: the request it issued last
  cRes,       \* caller c: what its last operation returned or raised
  \* ---- practice.py main
  pPc, pStack, pA, pLog

clientVars == <<pc, depth, enters, extraExits, stack, sess, tState, tCloses,
                sCloses, inflight, pending_raise, propagated,
                snapshot, closeLog, reports, firstFailed>>
sessionVars == <<sState, nextId, pending, sent, unanswered>>
callerVars == <<cPc, cReq, cRes>>
practiceVars == <<pPc, pStack, pA, pLog>>
vars == <<program, clientVars, sessionVars, callerVars, practiceVars>>

\* A request as the server sees it, and what an operation returns or raises:
\* the identifier it answers, the tool name or the names it carries, and for a
\* list the descriptors as the server sent them.
NoReq == [sess |-> 0, id |-> 0, kind |-> "none", name |-> "none",
          input |-> "none"]
NoRes == [kind |-> "none", id |-> 0, content |-> "none", names |-> <<>>, raw |-> <<>>]

\* ------------------------------------------------- AsyncExitStack
\* enter_async_context / push_async_callback: record an exit callback.
Push(s, e) == Append(s, e)

\* A plausible slip: the callbacks run in the order they were recorded.
PopCallbackFifo(s) == [entry |-> s[1], rest |-> SubSeq(s, 2, Len(s))]

\* __aexit__ / aclose take the callback to run from the end of the list
\* (self._exit_callbacks.pop()): last in, first out.
PopCallback(s) == [entry |-> s[Len(s)], rest |-> SubSeq(s, 1, Len(s) - 1)]


TransportEntry(n) == [kind |-> "transport", id |-> n]
SessionEntry(n) == [kind |-> "session", id |-> n]

\* Where the driving task is once a facade operation has returned or raised.
Resume(d) == IF d > 0 THEN "body" ELSE "idle"

\* ------------------------------------------------- protocol session
\* Closing a session fails every awaiter of its pending-request table.
FailPending(n, res) ==
  [c \in Callers |->
     IF \E i \in 1..NumCallers : <<i, c>> \in pending[n]
       THEN [NoRes EXCEPT !.kind = "ConnectionLostError", !.id = cReq[c].id]
       ELSE res[c]]

Awaiters(n) == {c \in Callers : \E i \in 1..NumCallers : <<i, c>> \in pending[n]}

\* ------------------------------------------------- Init
Init ==
  /\ program \in {"client", "practice"}
  /\ pc = "idle" /\ depth = 0 /\ enters = 0 /\ extraExits = 0
  /\ stack = <<>> /\ sess = 0
  /\ tState = [n \in Resources |-> "unopened"]
  /\ tCloses = [n \in Resources |-> 0]
  /\ sCloses = [n \in Resources |-> 0]
  /\ inflight = "none" /\ pending_raise = "none" /\ propagated = "none"
  /\ snapshot = <<>> /\ closeLog = <<>> /\ reports = 0
  /\ firstFailed = 0
  /\ sState = [n \in Resources |-> "Unopened"]
  /\ nextId = [n \in Resources |-> 1]
  /\ pending = [n \in Resources |-> {}]
  /\ sent = {} /\ unanswered = {}
  /\ cPc = [c \in Callers |-> "idle"]
  /\ cReq = [c \in Callers |-> NoReq]
  /\ cRes = [c \in Callers |-> NoRes]
  /\ pPc = "start" /\ pStack = <<>> /\ pA = "none" /\ pLog = <<>>

\* ------------------------------------------------- MCPClient.__aenter__
\* An acquire step of __aenter__ raised: nothing in __aenter__ catches it, and
\* "async with" does not call __aexit__ when __aenter__ raises.
AenterRaise ==
  /\ propagated' = "AcquisitionFailure"
  /\ pc' = Resume(depth)

\* read, write, _ = await self.stack.enter_async_context(streamablehttp_client(url))
AenterTransport ==
  /\ program = "client"
  /\ pc \in {"idle", "body"}
  /\ enters < MaxEnters
  /\ enters' = enters + 1
  /\ reports' = 0
  /\ \E ok \in BOOLEAN :
       IF ok
         THEN /\ tState' = [tState EXCEPT ![enters + 1] = "open"]
              /\ stack' = Push(stack, TransportEntry(enters + 1))
              /\ pc' = "enter_session"
              /\ propagated' = "none"
         ELSE /\ AenterRaise
              /\ UNCHANGED <<tState, stack>>
  /\ UNCHANGED <<program, depth, extraExits, sess, tCloses, sCloses, inflight,
                 pending_raise, snapshot, closeLog, firstFailed, sessionVars,
                 callerVars, practiceVars>>

\* A plausible slip: a session the facade already holds is kept and initialized
\* again (if self._sess is None: self._sess = await ...).
AenterSessionKeepsSession ==
  /\ program = "client"
  /\ pc = "enter_session"
  /\ IF sess # 0
       THEN /\ pc' = "initialize"
            /\ UNCHANGED <<sState, stack, sess, propagated>>
       ELSE \E ok \in BOOLEAN :
              IF ok
                THEN /\ sState' = [sState EXCEPT ![enters] = "Uninitialized"]
                     /\ stack' = Push(stack, SessionEntry(enters))
                     /\ sess' = enters
                     /\ pc' = "initialize"
                     /\ UNCHANGED propagated
                ELSE /\ AenterRaise
                     /\ UNCHANGED <<sState, stack, sess>>
  /\ UNCHANGED <<program, depth, enters, extraExits, tState, tCloses, sCloses,
                 inflight, pending_raise, snapshot, closeLog, reports,
                 firstFailed, nextId, pending, sent, unanswered, callerVars,
                 practiceVars>>

\* self._sess = await self.stack.enter_async_context(ClientSession(read, write))
AenterSession ==
  /\ program = "client"
  /\ pc = "enter_session"
  /\ \E ok \in BOOLEAN :
       IF ok
         THEN /\ sState' = [sState EXCEPT ![enters] = "Uninitialized"]
              /\ stack' = Push(stack, SessionEntry(enters))
              /\ sess' = enters
              /\ pc' = "initialize"
              /\ UNCHANGED propagated
         ELSE /\ AenterRaise
              /\ UNCHANGED <<sState, stack, sess>>
  /\ UNCHANGED <<program, depth, enters, extraExits, tState, tCloses, sCloses,
                 inflight, pending_raise, snapshot, closeLog, reports,
                 firstFailed, nextId, pending, sent, unanswered, callerVars,
                 practiceVars>>

\* A plausible slip: initialize() is called without await, so __aenter__ returns
\* the facade while the handshake is still under way.
AenterInitializeNotAwaited ==
  /\ program = "client"
  /\ pc = "initialize"
  /\ sState' = [sState EXCEPT ![sess] = "Initializing"]
  /\ sent' = sent \cup {[sess |-> sess, id |-> 0, kind |-> "initialize"]}
  /\ pc' = "body"
  /\ depth' = depth + 1
  /\ UNCHANGED <<program, enters, extraExits, stack, sess, tState,
                 tCloses, sCloses, inflight, pending_raise, propagated,
                 snapshot, closeLog, reports, firstFailed, nextId, pending,
                 unanswered, callerVars, practiceVars>>

\* await self._sess.initialize(): the handshake request goes out and the task
\* suspends until the reply.
AenterInitialize ==
  /\ program = "client"
  /\ pc = "initialize"
  /\ sState' = [sState EXCEPT ![sess] = "Initializing"]
  /\ sent' = sent \cup {[sess |-> sess, id |-> 0, kind |-> "initialize"]}
  /\ pc' = "handshake"
  /\ UNCHANGED <<program, depth, enters, extraExits, stack, sess, tState,
                 tCloses, sCloses, inflight, pending_raise, propagated,
                 snapshot, closeLog, reports, firstFailed, nextId, pending,
                 unanswered, callerVars, practiceVars>>

\* initialize() returns (return self) or raises.
AenterHandshake ==
  /\ program = "client"
  /\ pc = "handshake"
  /\ \E o \in HandshakeOutcomes :
       IF o = "ack"
         THEN /\ sState' = [sState EXCEPT ![sess] = "Ready"]
              /\ depth' = depth + 1
              /\ pc' = "body"
              /\ propagated' = "none"
         ELSE /\ sState' = [sState EXCEPT ![sess] = "Closed"]
              /\ AenterRaise
              /\ UNCHANGED depth
  /\ UNCHANGED <<program, enters, extraExits, stack, sess, tState, tCloses,
                 sCloses, inflight, pending_raise, snapshot, closeLog, reports,
                 firstFailed, nextId, pending, sent, unanswered, callerVars,
                 practiceVars>>

\* ------------------------------------------------- MCPClient.__aexit__
\* async def __aexit__(self, *args): await self.stack.aclose()
AexitBegin(how, exc) ==
  /\ pc' = how
  /\ propagated' = "none"
  /\ inflight' = exc
  /\ pending_raise' = "none"
  /\ snapshot' = stack
  /\ closeLog' = <<>>
  /\ reports' = 0
  /\ firstFailed' = 0

\* The body of "async with MCPClient(...) as client" ends, normally or by raising.
BodyEnd ==
  /\ program = "client"
  /\ pc = "body"
  /\ \E exc \in {"none", "BodyFailure"} : AexitBegin("closing", exc)
  /\ UNCHANGED <<program, depth, enters, extraExits, stack, sess, tState,
                 tCloses, sCloses, sessionVars, callerVars, practiceVars>>

\* __aexit__ called once more on a facade no scope is open on.
ExtraExit ==
  /\ program = "client"
  /\ pc = "idle"
  /\ extraExits < MaxExtraExits
  /\ extraExits' = extraExits + 1
  /\ AexitBegin("closing_direct", "none")
  /\ UNCHANGED <<program, depth, enters, stack, sess, tState, tCloses, sCloses,
                 sessionVars, callerVars, practiceVars>>

\* A plausible slip: the callbacks are dropped without being run
\* (self.stack.pop_all() in place of self.stack.aclose()).
AcloseStepDropsCallback ==
  /\ program = "client"
  /\ pc \in {"closing", "closing_direct"}
  /\ stack # <<>>
  /\ stack' = PopCallback(stack).rest
  /\ closeLog' = Append(closeLog, PopCallback(stack).entry)
  /\ UNCHANGED <<program, pc, depth, enters, extraExits, sess, tState, tCloses,
                 sCloses, inflight, pending_raise, propagated, snapshot,
                 reports, firstFailed, sessionVars, callerVars, practiceVars>>

\* A plausible slip: the loop runs the callbacks without a try/except, so the
\* first release that raises ends the close and the entries below it stay
\* unreleased.
AcloseStepStopsAtFailure ==
  /\ program = "client"
  /\ pc \in {"closing", "closing_direct"}
  /\ stack # <<>>
  /\ LET e == PopCallback(stack).entry IN
       /\ stack' = PopCallback(stack).rest
       /\ closeLog' = Append(closeLog, e)
       /\ IF e.kind = "transport"
            THEN /\ tState' = [tState EXCEPT ![e.id] = "closed"]
                 /\ tCloses' = [tCloses EXCEPT ![e.id] = @ + 1]
                 /\ unanswered' = {r \in unanswered : r.sess # e.id}
                 /\ UNCHANGED <<sCloses, sState, pending, cPc, cRes>>
            ELSE /\ sCloses' = [sCloses EXCEPT ![e.id] = @ + 1]
                 /\ sState' = [sState EXCEPT ![e.id] = "Closed"]
                 /\ pending' = [pending EXCEPT ![e.id] = {}]
                 /\ cRes' = FailPending(e.id, cRes)
                 /\ cPc' = [c \in Callers |->
                              IF c \in Awaiters(e.id) THEN "done" ELSE cPc[c]]
                 /\ UNCHANGED <<tState, tCloses, unanswered>>
  /\ \E ok \in BOOLEAN :
       IF ok
         THEN UNCHANGED <<pc, depth, pending_raise, firstFailed, propagated,
                          reports, inflight, snapshot>>
         ELSE /\ reports' = 1
              /\ propagated' = "TeardownFailure"
              /\ depth' = IF pc = "closing" THEN depth - 1 ELSE depth
              /\ pc' = Resume(depth')
              /\ UNCHANGED <<pending_raise, firstFailed, inflight, snapshot>>
  /\ UNCHANGED <<program, enters, extraExits, sess, nextId, sent, cReq,
                 practiceVars>>

\* One turn of aclose's loop: pop the last callback and run it.  A callback that
\* raises leaves its failure pending and the loop goes on.
AcloseStep ==
  /\ program = "client"
  /\ pc \in {"closing", "closing_direct"}
  /\ stack # <<>>
  /\ LET e == PopCallback(stack).entry IN
       /\ stack' = PopCallback(stack).rest
       /\ closeLog' = Append(closeLog, e)
       /\ IF e.kind = "transport"
            THEN /\ tState' = [tState EXCEPT ![e.id] = "closed"]
                 /\ tCloses' = [tCloses EXCEPT ![e.id] = @ + 1]
                 /\ unanswered' = {r \in unanswered : r.sess # e.id}
                 /\ UNCHANGED <<sCloses, sState, pending, cPc, cRes>>
            ELSE /\ sCloses' = [sCloses EXCEPT ![e.id] = @ + 1]
                 /\ sState' = [sState EXCEPT ![e.id] = "Closed"]
                 /\ pending' = [pending EXCEPT ![e.id] = {}]
                 /\ cRes' = FailPending(e.id, cRes)
                 /\ cPc' = [c \in Callers |->
                              IF c \in Awaiters(e.id) THEN "done" ELSE cPc[c]]
                 /\ UNCHANGED <<tState, tCloses, unanswered>>
  /\ \E ok \in BOOLEAN :
       /\ pending_raise' = IF ok THEN pending_raise ELSE "TeardownFailure"
       /\ firstFailed' = IF ok \/ firstFailed > 0
                            THEN firstFailed ELSE Len(closeLog) + 1
  /\ UNCHANGED <<program, pc, depth, enters, extraExits, sess, inflight,
                 propagated, snapshot, reports, nextId, sent, cReq,
                 practiceVars>>

\* A plausible slip: the close walks a copy of the callbacks and leaves the
\* recorded entries in place.
AcloseFinishKeepsEntries ==
  /\ program = "client"
  /\ pc \in {"closing", "closing_direct"}
  /\ stack = <<>>
  /\ stack' = snapshot
  /\ reports' = IF pending_raise # "none" THEN 1 ELSE 0
  /\ propagated' = IF pending_raise # "none" THEN pending_raise ELSE inflight
  /\ depth' = IF pc = "closing" THEN depth - 1 ELSE depth
  /\ pc' = Resume(depth')
  /\ inflight' = "none" /\ pending_raise' = "none"
  /\ snapshot' = <<>> /\ closeLog' = <<>> /\ firstFailed' = 0
  /\ UNCHANGED <<program, enters, extraExits, sess, tState, tCloses,
                 sCloses, sessionVars, callerVars, practiceVars>>

\* aclose's loop is over: a pending failure is raised out of __aexit__ and is what
\* the caller sees; otherwise __aexit__ returns None and the failure the scope was
\* exiting with, if any, goes on.
\* A plausible slip: __aexit__ also forgets the session (self._sess = None).
AcloseFinishClearsSession ==
  /\ program = "client"
  /\ pc \in {"closing", "closing_direct"}
  /\ stack = <<>>
  /\ sess' = 0
  /\ reports' = IF pending_raise # "none" THEN 1 ELSE 0
  /\ propagated' = IF pending_raise # "none" THEN pending_raise ELSE inflight
  /\ depth' = IF pc = "closing" THEN depth - 1 ELSE depth
  /\ pc' = Resume(depth')
  /\ inflight' = "none" /\ pending_raise' = "none"
  /\ snapshot' = <<>> /\ closeLog' = <<>> /\ firstFailed' = 0
  /\ UNCHANGED <<program, enters, extraExits, stack, tState, tCloses,
                 sCloses, sessionVars, callerVars, practiceVars>>

AcloseFinish ==
  /\ program = "client"
  /\ pc \in {"closing", "closing_direct"}
  /\ stack = <<>>
  /\ reports' = IF pending_raise # "none" THEN 1 ELSE 0
  /\ propagated' = IF pending_raise # "none" THEN pending_raise ELSE inflight
  /\ depth' = IF pc = "closing" THEN depth - 1 ELSE depth
  /\ pc' = Resume(depth')
  /\ inflight' = "none" /\ pending_raise' = "none"
  /\ snapshot' = <<>> /\ closeLog' = <<>> /\ firstFailed' = 0
  /\ UNCHANGED <<program, enters, extraExits, stack, sess, tState, tCloses,
                 sCloses, sessionVars, callerVars, practiceVars>>

\* ------------------------------------------------- facade operations
\* Sequences of at most n elements of S.
SeqsUpTo(S, n) == UNION {[1..k -> S] : k \in 0..n}

\* A plausible slip: the names pass through a set and come back without repeats.
RECURSIVE ToolNamesDeduplicated(_)
ToolNamesDeduplicated(tools) ==
  IF tools = <<>> THEN <<>>
  ELSE LET front == ToolNamesDeduplicated(SubSeq(tools, 1, Len(tools) - 1))
           last == tools[Len(tools)].name
       IN IF \E i \in 1..Len(front) : front[i] = last
            THEN front ELSE Append(front, last)

\* list_tool_names: return [tool.name for tool in tools]
ToolNamesOf(tools) == [i \in 1..Len(tools) |-> tools[i].name]

\* A plausible slip: the facade catches the session's failure and raises its own
\* (except Exception: raise ConnectionError(...)).
CallToolReturnWrapsFailure(res) ==
  IF res.kind = "RemoteToolError"
    THEN [res EXCEPT !.kind = "ConnectionLostError"]
    ELSE res

\* A plausible slip: the facade swallows a lost connection and returns nothing
\* (except ConnectionError: return None).
CallToolReturnSwallowsFailure(res) ==
  IF res.kind = "ConnectionLostError" THEN NoRes ELSE res

\* A plausible slip: the awaited result is dropped (no return).
CallToolReturnsNone(res) == NoRes

\* call_tool: return await self._sess.call_tool(...): the session's result or
\* failure is the facade's.
CallToolReturn(res) == res

\* What the facade operation hands its caller once the session has answered.
FacadeReturn(res) ==
  IF res.kind = "tools"
    THEN [res EXCEPT !.kind = "names", !.names = ToolNamesOf(res.raw)]
    ELSE CallToolReturn(res)

\* self._sess is None on a facade that was never entered: the attribute access
\* self._sess.call_tool / self._sess.list_tools raises AttributeError.
NoSessionError == [NoRes EXCEPT !.kind = "AttributeError"]

\* The session refuses an operation outside Ready with a state error and sends
\* nothing.
StateError == [NoRes EXCEPT !.kind = "ProtocolMisuseError"]

\* A plausible slip: the identifier is taken from the size of the pending table
\* (len(pending) + 1), so an identifier comes back once a request is answered.
SessionRequestReusesId(c, kind, name, input) ==
  LET id == Cardinality(pending[sess]) + 1
      r == [sess |-> sess, id |-> id, kind |-> kind, name |-> name,
            input |-> input] IN
    /\ nextId' = [nextId EXCEPT ![sess] = @ + 1]
    /\ pending' = [pending EXCEPT ![sess] = @ \cup {<<id, c>>}]
    /\ sent' = sent \cup {[sess |-> sess, id |-> id, kind |-> "request"]}
    /\ unanswered' = unanswered \cup {r}
    /\ cReq' = [cReq EXCEPT ![c] = r]
    /\ cRes' = [cRes EXCEPT ![c] = NoRes]
    /\ cPc' = [cPc EXCEPT ![c] = "waiting"]

\* The session sends a request under a fresh identifier and records its awaiter.
SessionRequest(c, kind, name, input) ==
  LET r == [sess |-> sess, id |-> nextId[sess], kind |-> kind, name |-> name,
            input |-> input] IN
    /\ nextId' = [nextId EXCEPT ![sess] = @ + 1]
    /\ pending' = [pending EXCEPT ![sess] = @ \cup {<<nextId[sess], c>>}]
    /\ sent' = sent \cup {[sess |-> sess, id |-> nextId[sess],
                           kind |-> "request"]}
    /\ unanswered' = unanswered \cup {r}
    /\ cReq' = [cReq EXCEPT ![c] = r]
    /\ cRes' = [cRes EXCEPT ![c] = NoRes]
    /\ cPc' = [cPc EXCEPT ![c] = "waiting"]

\* A facade operation that fails before anything is sent.
FailLocally(c, kind, res) ==
  /\ cReq' = [cReq EXCEPT ![c] = [NoReq EXCEPT !.kind = kind]]
  /\ cRes' = [cRes EXCEPT ![c] = res]
  /\ cPc' = [cPc EXCEPT ![c] = "done"]
  /\ UNCHANGED <<nextId, pending, sent, unanswered>>

\* The session's call_tool accepts a non-empty name with a key-to-value mapping.
ValidCall(name, input) == name # "" /\ input = "mapping"

ValidationError == [NoRes EXCEPT !.kind = "ValidationError"]

\* The session rejects the arguments of a call before it sends anything.
RejectCall(c, name, input) ==
  /\ cReq' = [cReq EXCEPT ![c] = [NoReq EXCEPT !.kind = "call", !.name = name,
                                                !.input = input]]
  /\ cRes' = [cRes EXCEPT ![c] = ValidationError]
  /\ cPc' = [cPc EXCEPT ![c] = "done"]
  /\ UNCHANGED <<nextId, pending, sent, unanswered>>

\* A plausible slip: the facade writes the request through the session's
\* send_request, past the checks call_tool makes on its arguments.
DelegateUnchecked(c, kind, name, input) ==
  IF sess = 0
    THEN FailLocally(c, kind, NoSessionError)
    ELSE IF sState[sess] # "Ready"
      THEN FailLocally(c, kind, StateError)
      ELSE SessionRequest(c, kind, name, input)

\* The facade hands the operation, with the arguments as it got them, to
\* self._sess.
Delegate(c, kind, name, input) ==
  IF sess = 0
    THEN FailLocally(c, kind, NoSessionError)
    ELSE IF sState[sess] # "Ready"
      THEN FailLocally(c, kind, StateError)
      ELSE IF kind = "call" /\ ~ValidCall(name, input)
        THEN RejectCall(c, name, input)
        ELSE SessionRequest(c, kind, name, input)

\* MCPClient.call_tool(tool_name, tool_input)
CallTool(c) ==
  /\ program = "client"
  /\ cPc[c] = "idle"
  /\ \E name \in CallNames, input \in CallInputs :
       Delegate(c, "call", name, input)
  /\ UNCHANGED <<program, clientVars, sState, practiceVars>>

\* MCPClient.list_tool_names()
ListToolNames(c) ==
  /\ program = "client"
  /\ cPc[c] = "idle"
  /\ Delegate(c, "list", "none", "none")
  /\ UNCHANGED <<program, clientVars, sState, practiceVars>>

\* initialize() called on the facade's session by a task, while the facade's own
\* handshake is under way or after it: the session refuses it.  The facade's own
\* call comes first: __aenter__ does not yield between binding self._sess and
\* calling initialize().
InitializeAgain(c) ==
  /\ program = "client"
  /\ cPc[c] = "idle"
  /\ sess # 0
  /\ sState[sess] # "Uninitialized"
  /\ FailLocally(c, "initialize", StateError)
  /\ UNCHANGED <<program, clientVars, sState, practiceVars>>

\* What the server answers to request r.
Responses(r) ==
  IF r.kind = "list"
    THEN {[NoRes EXCEPT !.kind = "tools", !.id = r.id, !.raw = tools] :
            tools \in SeqsUpTo(Descriptors, MaxTools)}
    ELSE {[NoRes EXCEPT !.kind = IF r.name \in ServerTools
                                   THEN "result" ELSE "RemoteToolError",
                        !.id = r.id, !.content = r.name]}

\* A response arrives, in any order: the session hands it to the awaiter recorded
\* under its identifier and drops it when there is none.
Respond ==
  /\ program = "client"
  /\ \E r \in unanswered :
       /\ unanswered' = unanswered \ {r}
       /\ IF \E c \in Callers : <<r.id, c>> \in pending[r.sess]
            THEN \E c \in Callers, res \in Responses(r) :
                   /\ <<r.id, c>> \in pending[r.sess]
                   /\ pending' = [pending EXCEPT ![r.sess] = @ \ {<<r.id, c>>}]
                   /\ cRes' = [cRes EXCEPT ![c] = FacadeReturn(res)]
                   /\ cPc' = [cPc EXCEPT ![c] = "done"]
            ELSE UNCHANGED <<pending, cRes, cPc>>
  /\ UNCHANGED <<program, clientVars, sState, nextId, sent, cReq,
                 practiceVars>>

\* The transport of a Ready session disconnects: the session is Closed and every
\* awaiter of its pending-request table fails with the connection-lost error,
\* which the facade operation it is suspended in raises to its caller.  The
\* stack keeps both entries; their release steps are still to be invoked.
TransportDisconnect ==
  /\ program = "client"
  /\ \E n \in Resources :
       /\ tState[n] = "open"
       /\ sState[n] = "Ready"
       /\ tState' = [tState EXCEPT ![n] = "lost"]
       /\ sState' = [sState EXCEPT ![n] = "Closed"]
       /\ pending' = [pending EXCEPT ![n] = {}]
       /\ unanswered' = {r \in unanswered : r.sess # n}
       /\ cRes' = [c \in Callers |->
                     IF c \in Awaiters(n)
                       THEN FacadeReturn(FailPending(n, cRes)[c])
                       ELSE cRes[c]]
       /\ cPc' = [c \in Callers |->
                    IF c \in Awaiters(n) THEN "done" ELSE cPc[c]]
  /\ UNCHANGED <<program, pc, depth, enters, extraExits, stack, sess, tCloses,
                 sCloses, inflight, pending_raise, propagated, snapshot,
                 closeLog, reports, firstFailed, nextId, sent, cReq,
                 practiceVars>>

\* ------------------------------------------------- practice.py main
CtxEntry(name) == [kind |-> "ctx", id |-> name]
CallbackEntry(name) == [kind |-> "callback", id |-> name]

\* a = await stack.enter_async_context(await get_connection("A")):
\* ctx.__aenter__ returns the name.
PracticeEnterA ==
  /\ program = "practice"
  /\ pPc = "start"
  /\ pA' = "A"
  /\ pStack' = Push(pStack, CtxEntry("A"))
  /\ pPc' = "entered_a"
  /\ UNCHANGED <<program, clientVars, sessionVars, callerVars, pLog>>

\* A plausible slip: B is entered by hand and not recorded on the stack
\* (b = await (await get_connection("B")).__aenter__()).
PracticeEnterBUnrecorded ==
  /\ program = "practice"
  /\ pPc = "entered_a"
  /\ pPc' = "after_if"
  /\ UNCHANGED <<program, clientVars, sessionVars, callerVars, pA, pStack,
                 pLog>>

\* if a == "A": b = await stack.enter_async_context(await get_connection("B"))
PracticeEnterB ==
  /\ program = "practice"
  /\ pPc = "entered_a"
  /\ pStack' = IF pA = "A" THEN Push(pStack, CtxEntry("B")) ELSE pStack
  /\ pPc' = "after_if"
  /\ UNCHANGED <<program, clientVars, sessionVars, callerVars, pA, pLog>>

\* A plausible slip: the callback is recorded under the entered connections
\* (stack._exit_callbacks.appendleft in place of append).
PracticePushCallbackFirst ==
  /\ program = "practice"
  /\ pPc = "after_if"
  /\ pStack' = <<CallbackEntry("custom_cleanup")>> \o pStack
  /\ pPc' = "closing"
  /\ UNCHANGED <<program, clientVars, sessionVars, callerVars, pA, pLog>>

\* stack.push_async_callback(custom_cleanup)
PracticePushCallback ==
  /\ program = "practice"
  /\ pPc = "after_if"
  /\ pStack' = Push(pStack, CallbackEntry("custom_cleanup"))
  /\ pPc' = "closing"
  /\ UNCHANGED <<program, clientVars, sessionVars, callerVars, pA, pLog>>

\* Leaving "async with AsyncExitStack() as stack": one turn of the unwind.
PracticeExitStep ==
  /\ program = "practice"
  /\ pPc = "closing"
  /\ pStack # <<>>
  /\ pLog' = Append(pLog, PopCallback(pStack).entry)
  /\ pStack' = PopCallback(pStack).rest
  /\ UNCHANGED <<program, clientVars, sessionVars, callerVars, pA, pPc>>

PracticeDone ==
  /\ program = "practice"
  /\ pPc = "closing"
  /\ pStack = <<>>
  /\ pPc' = "done"
  /\ UNCHANGED <<program, clientVars, sessionVars, callerVars, pA, pStack, pLog>>

\* ------------------------------------------------- specification
Next ==
  \/ AenterTransport
  \/ AenterSession
  \/ AenterInitialize
  \/ AenterHandshake
  \/ BodyEnd
  \/ ExtraExit
  \/ AcloseStep
  \/ AcloseFinish
  \/ \E c \in Callers : CallTool(c)
  \/ \E c \in Callers : ListToolNames(c)
  \/ \E c \in Callers : InitializeAgain(c)
  \/ Respond
  \/ TransportDisconnect
  \/ PracticeEnterA
  \/ PracticeEnterB
  \/ PracticePushCallback
  \/ PracticeExitStep
  \/ PracticeDone

Spec == Init /\ [][Next]_vars

\* The facade's lifecycle and the demonstration alone: no task uses the facade.
NextLifecycle ==
  \/ AenterTransport
  \/ AenterSession
  \/ AenterInitialize
  \/ AenterHandshake
  \/ BodyEnd
  \/ ExtraExit
  \/ AcloseStep
  \/ AcloseFinish
  \/ PracticeEnterA
  \/ PracticeEnterB
  \/ PracticePushCallback
  \/ PracticeExitStep
  \/ PracticeDone

SpecLifecycle == Init /\ [][NextLifecycle]_vars

\* asyncio.run(main()) drives practice.py's main to its end: no step of it waits
\* on anything outside the program (the connections only print).
PracticeStep ==
  \/ PracticeEnterA
  \/ PracticeEnterB
  \/ PracticePushCallback
  \/ PracticeExitStep
  \/ PracticeDone

SpecPracticeRuns == Init /\ [][NextLifecycle]_vars /\ WF_vars(PracticeStep)

\* ------------------------------------------------- properties
Reverse(s) == [i \in 1..Len(s) |-> s[Len(s) + 1 - i]]

Closing == pc \in {"closing", "closing_direct"}

\* The close under way has run its loop to the end.
Unwound == Closing /\ stack = <<>>

\* The step with which a close returns to its caller.
CloseReturns == Closing /\ pc' \notin {"closing", "closing_direct"}

Occurrences(s, e) == Cardinality({i \in 1..Len(s) : s[i] = e})

\* C1: whenever facade acquisition has failed, every resource that acquisition
\* entered has been released exactly once and none of its entries is left on
\* the stack.
C1_FailedAcquisitionReleasesAll ==
  propagated = "AcquisitionFailure" =>
    /\ \A i \in 1..Len(stack) : stack[i].id # enters
    /\ tState[enters] # "unopened" => tCloses[enters] = 1
    /\ sState[enters] # "Unopened" => sCloses[enters] = 1

\* The order in which practice.py's main records its entries.
PracticeRecorded ==
  <<CtxEntry("A")>> \o (IF pA = "A" THEN <<CtxEntry("B")>> ELSE <<>>)
                    \o <<CallbackEntry("custom_cleanup")>>

\* C2: a close releases the recorded entries in exactly the reverse of the order
\* in which they were recorded (what is still on the stack, followed by the
\* released entries read backwards, is the stack as the close found it), and a
\* session is released before the transport it runs on.
C2_ReleaseInReverseOrder ==
  /\ Closing =>
       /\ snapshot = stack \o Reverse(closeLog)
       /\ \A i, j \in 1..Len(closeLog) :
            (closeLog[i].kind = "session" /\ closeLog[j].kind = "transport"
               /\ closeLog[i].id = closeLog[j].id) => i < j
  /\ pPc \in {"closing", "done"} => pStack \o Reverse(pLog) = PracticeRecorded

\* Two nested acquisitions are unwound in one close.
C2_Witness == Unwound /\ Len(closeLog) = 4

C3_Released ==
  /\ Len(closeLog) = Len(snapshot)
  /\ \A i \in 1..Len(snapshot) :
       /\ Occurrences(closeLog, snapshot[i]) = 1
       /\ IF snapshot[i].kind = "transport"
            THEN tCloses[snapshot[i].id] = 1
            ELSE sCloses[snapshot[i].id] = 1

C3_Inv ==
  /\ Closing => (reports = 0 /\ propagated = "none")
  /\ Unwound => C3_Released

C3_Step ==
  CloseReturns =>
    /\ stack = <<>>
    /\ C3_Released
    /\ reports' = IF firstFailed > 0 THEN 1 ELSE 0
    /\ firstFailed > 0 => propagated' = "TeardownFailure"

\* C3: a close invokes the release step of every entry it found exactly once,
\* also when release steps fail (a failure never ends the unwind early), and it
\* raises nothing until the unwind is complete, then one failure if any release
\* failed.
C3_EveryEntryReleasedOnce == [](C3_Inv) /\ [][C3_Step]_vars

\* The first release of a close failed and the entries below were still released.
C3_Witness == Unwound /\ firstFailed = 1 /\ Len(closeLog) >= 2

\* C4: when the scope exits with a failure in flight and a release step fails
\* too, the failure that reaches the caller is the one that was in flight.
C4_OriginalFailurePropagates ==
  [][(CloseReturns /\ inflight # "none" /\ pending_raise # "none")
       => propagated' = inflight]_vars

\* Caller c starts call_tool in this step and it fails before it suspends.
CallFailsAtOnce(c) ==
  /\ cPc[c] = "idle"
  /\ cPc'[c] = "done"
  /\ cReq'[c].kind = "call"

\* C5: call_tool on a facade whose session has not completed initialize() (no
\* session yet, or one not yet Ready) fails with ProtocolMisuseError and sends
\* nothing.
C5_CallBeforeInitializeIsMisuse ==
  [][\A c \in Callers :
       (CallFailsAtOnce(c)
          /\ (sess = 0 \/ sState[sess] \in {"Uninitialized", "Initializing"}))
       => (cRes'[c].kind = "ProtocolMisuseError" /\ sent' = sent)]_vars

\* C6: whatever the order of arrival, a caller whose request was answered holds
\* the response that carries its own request's identifier (and, for a call, the
\* content made for its own tool name), and no two callers of a session share
\* an identifier.
C6_ResponseToOriginatingCaller ==
  /\ \A c \in Callers :
       (cPc[c] = "done" /\ cReq[c].id > 0) =>
         /\ cRes[c].id = cReq[c].id
         /\ cRes[c].kind \in {"result", "RemoteToolError"}
              => (cReq[c].kind = "call" /\ cRes[c].content = cReq[c].name)
         /\ cRes[c].kind = "names" => cReq[c].kind = "list"
  /\ \A c, d \in Callers :
       (c # d /\ cReq[c].id > 0 /\ cReq[c].sess = cReq[d].sess)
         => cReq[c].id # cReq[d].id

\* The second of two concurrent calls is answered while the first still waits.
C6_Witness ==
  \E c, d \in Callers :
    /\ cReq[c].sess = cReq[d].sess
    /\ cReq[c].id = 1 /\ cPc[c] = "waiting"
    /\ cReq[d].id = 2 /\ cPc[d] = "done" /\ cRes[d].kind = "result"

C7_Inv ==
  Unwound =>
    \A i \in 1..Len(snapshot) :
      IF snapshot[i].kind = "transport"
        THEN tCloses[snapshot[i].id] = 1
        ELSE /\ pending[snapshot[i].id] = {}
             /\ \A c \in Callers :
                  ~(cPc[c] = "waiting" /\ cReq[c].sess = snapshot[i].id)

C7_Step ==
  /\ CloseReturns => stack = <<>>
  /\ \A c \in Callers :
       (cPc[c] = "waiting" /\ sCloses'[cReq[c].sess] # sCloses[cReq[c].sess])
         => (cPc'[c] = "done" /\ cRes'[c].kind = "ConnectionLostError")

\* C7: releasing the facade resolves every caller still waiting on its session
\* with ConnectionLostError before the release returns, and invokes the
\* transport's release exactly once.
C7_ReleaseResolvesPending == [](C7_Inv) /\ [][C7_Step]_vars

\* A release with two calls outstanding.
C7_Witness ==
  Unwound /\ \A c \in Callers : cRes[c].kind = "ConnectionLostError"

\* Every resource the facade ever entered has had its release invoked.
AllReleased ==
  \A n \in 1..enters :
    /\ tState[n] # "unopened" => tCloses[n] >= 1
    /\ sState[n] # "Unopened" => sCloses[n] >= 1

\* C8: once everything entered has been unwound, a further close invokes no
\* release step and changes nothing of the stack, the transports or the
\* sessions; no release step is ever invoked twice.
C8_SecondCloseIsNoOp ==
  /\ [](\A n \in Resources : tCloses[n] <= 1 /\ sCloses[n] <= 1)
  /\ [][(Closing /\ AllReleased)
          => UNCHANGED <<stack, tState, tCloses, sState, sCloses, pending>>]_vars

\* A second close is under way on a facade whose first unwind is over.
C8_Witness ==
  /\ pc = "closing_direct" /\ snapshot = <<>> /\ stack = <<>>
  /\ tCloses[1] = 1 /\ sCloses[1] = 1

\* C9: the names list_tool_names returns are the name fields of the descriptors
\* of the response, as many and in the same order, repeats included.
C9_ListToolNamesRoundTrip ==
  \A c \in Callers :
    cRes[c].kind = "names" =>
      /\ Len(cRes[c].names) = Len(cRes[c].raw)
      /\ \A i \in 1..Len(cRes[c].raw) : cRes[c].names[i] = cRes[c].raw[i].name

\* A response that names the same tool twice.
C9_Witness ==
  \E c \in Callers :
    /\ cRes[c].kind = "names"
    /\ Len(cRes[c].raw) = 2
    /\ cRes[c].raw[1].name = cRes[c].raw[2].name

C10_Step ==
  /\ \A n \in Resources :
       (sState[n] # "Ready" /\ sState'[n] = "Ready")
         => (sState[n] = "Initializing" /\ pc = "handshake" /\ sess = n)
  /\ (pc # "body" /\ pc' = "body" /\ depth' > depth)
       => (sState[sess] = "Initializing" /\ sState'[sess] = "Ready")
  /\ \A r \in sent' \ sent :
       r.kind # "initialize" => sState[r.sess] = "Ready"
  /\ (pc = "handshake" /\ pc' # "handshake" /\ sState'[sess] # "Ready")
       => (sState'[sess] = "Closed" /\ propagated' = "AcquisitionFailure")

\* C10: a session becomes Ready only by the handshake reply it awaits while
\* Initializing, the scope on the facade is entered only with that step, a list
\* or call request goes out only on a Ready session, and any other end of the
\* handshake leaves the session Closed and raises the acquisition failure.
C10_ReadyOnlyAfterHandshake == [][C10_Step]_vars

\* A request has gone out on a session that completed its handshake.
C10_Witness ==
  \E r \in sent : r.kind = "request" /\ sState[r.sess] = "Ready" /\ pc = "body"

\* The original reading: a pushed callback runs after every entered resource of
\* the same stack has been closed.
C11_CallbacksAfterResources ==
  /\ Closing =>
       \A i, j \in 1..Len(closeLog) :
         (closeLog[i].kind \in {"session", "transport"}
            /\ closeLog[j].kind = "callback") => i < j
  /\ \A i, j \in 1..Len(pLog) :
       (pLog[i].kind = "ctx" /\ pLog[j].kind = "callback") => i < j

\* C11: on release a pushed cleanup callback runs at its reverse-registration
\* position: pushed after the resources were entered (practice.py main), it
\* runs first, before any of them is exited; the facade itself pushes no
\* callback, and its close releases each session before the transport it runs
\* on.
C11_CallbackRunsAtStackPosition ==
  /\ pLog # <<>> => pLog[1] = CallbackEntry("custom_cleanup")
  /\ \A i, j \in 1..Len(pLog) :
       (pLog[i].kind = "callback" /\ pLog[j].kind = "ctx") => i < j
  /\ \A i \in 1..Len(stack) : stack[i].kind \in {"session", "transport"}
  /\ Closing =>
       \A i, j \in 1..Len(closeLog) :
         (closeLog[i].kind = "transport" /\ closeLog[j].kind = "session")
           => (i > j \/ closeLog[i].id > closeLog[j].id)

\* The demonstration has released the callback and both connections.
C11_Witness == pPc = "done" /\ Len(pLog) = 3 /\ pLog[3] = CtxEntry("A")

\* The release of the facade's latest acquisition has closed its session.
Released == enters > 0 /\ sCloses[enters] >= 1

\* Caller c starts a facade operation in this step.
Starts(c) == cPc[c] = "idle" /\ cPc'[c] # "idle"

C12_Step ==
  /\ \A c \in Callers :
       (Starts(c) /\ Released) =>
         /\ cPc'[c] = "done"
         /\ cRes'[c].kind = "ProtocolMisuseError"
         /\ sent' = sent /\ nextId' = nextId /\ pending' = pending
         /\ unanswered' = unanswered
  /\ \A n \in Resources : sState[n] = "Closed" => sState'[n] = "Closed"

\* C12: once the facade's session has been closed by a release, call_tool and
\* list_tool_names on the facade fail at once with the session's state error,
\* send nothing and consume no identifier; a Closed session stays Closed.
C12_ReleasedFacadeRefusesOperations == [][C12_Step]_vars

\* After a use that was answered and a release, an operation is refused.
C12_Witness ==
  /\ pc = "idle" /\ enters = 1 /\ Released
  /\ \E c, d \in Callers :
       /\ cPc[c] = "done" /\ cRes[c].kind = "result"
       /\ cPc[d] = "done" /\ cReq[d].kind = "list"
       /\ cRes[d].kind = "ProtocolMisuseError"

OpenTransports == {n \in Resources : tState[n] = "open"}
OpenSessions ==
  {n \in Resources : sState[n] \in {"Uninitialized", "Initializing", "Ready"}}

\* C13: whatever the sequence of acquisitions and releases of one facade, at
\* most one transport and at most one session are open at any time, and when a
\* release returns every transport and session the facade ever opened has been
\* released.
C13_SingleSessionPerFacade ==
  /\ [](Cardinality(OpenTransports) <= 1 /\ Cardinality(OpenSessions) <= 1)
  /\ [][CloseReturns => AllReleased']_vars



C14_Step ==
  /\ pc = "initialize" => (sess # 0 /\ sState[sess] = "Uninitialized")
  /\ \A n \in Resources :
       /\ (sState'[n] = "Initializing" /\ sState[n] # "Initializing")
            => (sState[n] = "Uninitialized" /\ pc = "initialize" /\ sess = n)
       /\ sState[n] \notin {"Unopened", "Uninitialized"}
            => sState'[n] \notin {"Unopened", "Uninitialized"}
  /\ \A r \in sent' \ sent :
       r.kind = "initialize" => sState[r.sess] = "Uninitialized"
  /\ \A c \in Callers :
       (Starts(c) /\ cReq'[c].kind = "initialize") =>
         /\ cPc'[c] = "done"
         /\ cRes'[c].kind = "ProtocolMisuseError"
         /\ sent' = sent /\ sState' = sState
         /\ pending' = pending /\ nextId' = nextId

\* C14: the facade calls initialize() on a session once, when the session is
\* fresh: a handshake goes out only from Uninitialized and a session never
\* returns there; an initialize() on a session whose handshake is under way or
\* over fails with ProtocolMisuseError, sends nothing and leaves the session's
\* state, identifiers and pending table as they were.
C14_InitializeExactlyOnce == [][C14_Step]_vars

\* A repeated initialize() was refused by a session that is Ready.
C14_Witness ==
  /\ pc = "body" /\ sess # 0 /\ sState[sess] = "Ready"
  /\ \E c \in Callers :
       /\ cPc[c] = "done" /\ cReq[c].kind = "initialize"
       /\ cRes[c].kind = "ProtocolMisuseError"

C15_Step ==
  \A c \in Callers :
    (cPc[c] = "waiting" /\ cPc'[c] = "done" /\ cReq[c].kind = "call") =>
      IF sState'[cReq[c].sess] = "Ready"
        THEN /\ cRes'[c] \in Responses(cReq[c])
             /\ cRes'[c].kind = "RemoteToolError"
                  <=> cReq[c].name \notin ServerTools
             /\ sState' = sState /\ sent' = sent /\ nextId' = nextId
             /\ pending' = [pending EXCEPT ![cReq[c].sess] =
                                             @ \ {<<cReq[c].id, c>>}]
             /\ \A d \in Callers \ {c} :
                  cPc'[d] = cPc[d] /\ cReq'[d] = cReq[d] /\ cRes'[d] = cRes[d]
        ELSE cRes'[c].kind = "ConnectionLostError"

\* C15: what call_tool hands its caller is what the session produced for that
\* request, unchanged: the server's result, or RemoteToolError exactly when the
\* server does not know the tool; the step that delivers it leaves the session
\* Ready and touches no other caller, pending entry or identifier.
C15_CallToolPassesThrough == [][C15_Step]_vars

\* A call of an unknown tool failed with RemoteToolError and a call sent after it
\* on the same session was answered.
C15_Witness ==
  \E c, d \in Callers :
    /\ cReq[c].id = 1 /\ cPc[c] = "done" /\ cRes[c].kind = "RemoteToolError"
    /\ cReq[d].id = 2 /\ cPc[d] = "done" /\ cRes[d].kind = "result"
    /\ cReq[c].sess = cReq[d].sess /\ sState[cReq[c].sess] = "Ready"



C16_Step ==
  /\ \A n \in Resources :
       (tState[n] = "open" /\ tState'[n] = "lost") =>
         /\ sState[n] = "Ready" /\ sState'[n] = "Closed"
         /\ pending'[n] = {}
         /\ \A c \in Callers :
              (cPc[c] = "waiting" /\ cReq[c].sess = n) =>
                /\ cPc'[c] = "done"
                /\ cRes'[c].kind = "ConnectionLostError"
                /\ cRes'[c].id = cReq[c].id
         /\ sent' = sent /\ nextId' = nextId
  /\ \A n \in Resources :
       sState[n] = "Closed" =>
         /\ pending[n] = {}
         /\ \A c \in Callers : ~(cPc[c] = "waiting" /\ cReq[c].sess = n)
  /\ \A r \in sent' \ sent :
       r.kind = "request" =>
         \E c \in Callers :
           Starts(c) /\ cReq'[c].sess = r.sess /\ cReq'[c].id = r.id
  /\ \A c \in Callers :
       cPc[c] = "done" => (cPc'[c] = "done" /\ cRes'[c] = cRes[c])

\* C16: the step in which the transport of a Ready session disconnects closes
\* the session and fails every caller waiting on it with ConnectionLostError; no
\* caller is left waiting on a Closed session; a failed operation stays failed
\* and a request goes on the wire only as the start of a caller's own operation
\* (nothing is sent again on a caller's behalf).
C16_DisconnectFailsPending == [][C16_Step]_vars

\* A disconnect, not a release, has failed two outstanding calls.
C16_Witness ==
  \E n \in Resources :
    /\ tState[n] = "lost" /\ sCloses[n] = 0 /\ pc = "body"
    /\ \A c \in Callers :
         /\ cReq[c].sess = n /\ cPc[c] = "done"
         /\ cRes[c].kind = "ConnectionLostError"

C17_Inv ==
  \A n \in Resources :
    /\ \A p, q \in pending[n] : p[1] = q[1] => p = q
    /\ \A p \in pending[n] : p[1] < nextId[n]
    /\ \A c \in Callers :
         (cReq[c].sess = n /\ cReq[c].id > 0) => cReq[c].id < nextId[n]
    /\ \A c, d \in Callers :
         (c # d /\ cReq[c].sess = n /\ cReq[d].sess = n /\ cReq[c].id > 0)
           => cReq[c].id # cReq[d].id

\* The response to r arrives and no caller is recorded under its identifier.
Unmatched(r) ==
  /\ r \in unanswered \ unanswered'
  /\ tState' = tState
  /\ ~ \E c \in Callers : <<r.id, c>> \in pending[r.sess]

C17_Step ==
  /\ \A n \in Resources :
       /\ nextId'[n] >= nextId[n]
       /\ \A p \in pending'[n] \ pending[n] :
            p[1] = nextId[n] /\ nextId'[n] = nextId[n] + 1
  /\ (\E r \in unanswered : Unmatched(r)) =>
       /\ pending' = pending /\ sState' = sState /\ nextId' = nextId
       /\ cPc' = cPc /\ cRes' = cRes /\ cReq' = cReq
       /\ propagated' = propagated /\ pc' = pc

\* C17: within a session no two pending requests and no two callers share an
\* identifier, every identifier in use is below the session's next one, which
\* never decreases (a new request takes it and moves it on), and a response
\* under which no caller is recorded is dropped: the pending tables, the
\* sessions' states and every caller's outcome stay as they were.
C17_IdentifiersUniqueAndUnmatchedDropped == [](C17_Inv) /\ [][C17_Step]_vars

\* Both responses arrived after the release had closed the session and failed
\* their callers, while the transport was still open: both were dropped.
C17_Witness ==
  \E n \in Resources :
    /\ tState[n] = "open" /\ sCloses[n] = 1 /\ unanswered = {}
    /\ nextId[n] = 3
    /\ \A c \in Callers :
         /\ cReq[c].sess = n /\ cReq[c].id > 0
         /\ cRes[c].kind = "ConnectionLostError"

C18_Step ==
  /\ \A r \in unanswered' \ unanswered :
       r.kind = "call" => (r.name # "" /\ r.input = "mapping")
  /\ \A c \in Callers :
       (Starts(c) /\ cReq'[c].kind = "call"
          /\ (cReq'[c].name = "" \/ cReq'[c].input # "mapping")) =>
         /\ cPc'[c] = "done"
         /\ cRes'[c].kind \in {"ValidationError", "ProtocolMisuseError",
                               "AttributeError"}
         /\ sent' = sent /\ nextId' = nextId
         /\ pending' = pending /\ unanswered' = unanswered

\* C18: a call_tool whose name is empty or whose input is not a mapping ends at
\* once with an error: the step writes nothing, takes no identifier and leaves
\* the pending table as it was; every call request on the wire carries a
\* non-empty name and a mapping.
C18_InvalidCallRejectedBeforeSend == [][C18_Step]_vars

\* On a Ready session that has sent no request, one call was rejected for its
\* empty name and one for its input.
C18_Witness ==
  /\ sess # 0 /\ sState[sess] = "Ready" /\ nextId[sess] = 1
  /\ \A r \in sent : r.kind = "initialize"
  /\ \E c, d \in Callers :
       /\ cRes[c].kind = "ValidationError"
       /\ cReq[c].name = "" /\ cReq[c].input = "mapping"
       /\ cRes[d].kind = "ValidationError"
       /\ cReq[d].name = "get_greeting" /\ cReq[d].input = "text"


C19_Inv ==
  /\ \A i \in 1..Len(pLog) :
       /\ Occurrences(pLog, pLog[i]) = 1
       /\ pLog[i] = CtxEntry("B") => pA = "A"
       /\ pLog[i] \in {CtxEntry("A"), CtxEntry("B"),
                       CallbackEntry("custom_cleanup")}
  /\ pPc = "done" =>
       /\ pStack = <<>>
       /\ pLog = <<CallbackEntry("custom_cleanup")>>
                   \o (IF pA = "A" THEN <<CtxEntry("B")>> ELSE <<>>)
                   \o <<CtxEntry("A")>>

\* C19: every run of practice.py's main reaches its end, and there the stack is
\* empty and what was released is the custom cleanup, then B (entered because
\* A's __aenter__ returned "A"), then A, each exactly once; nothing is released
\* twice at any point and only what was recorded is released.
C19_PracticeMainReleasesAll ==
  /\ [](C19_Inv)
  /\ (program = "practice") ~> (pPc = "done")

\* The demonstration is over and B, entered under the condition, was released
\* between the callback and A.
C19_Witness ==
  /\ pPc = "done" /\ pA = "A" /\ pStack = <<>>
  /\ pLog[2] = CtxEntry("B")

=============================================================================
